---- MODULE Spec2Model ----
(***************************************************************************)
(* The askpass credential relay of jjui, cmd/jjui/main.go.                 *)
(*                                                                         *)
(* showPassword(send) returns the prompt handler the relay server calls    *)
(* once per accepted connection, each call on its own goroutine.  A call   *)
(* makes a result channel of capacity 1, posts a TogglePasswordMsg         *)
(* carrying the adjusted prompt and that channel, and then selects on the  *)
(* cancellation channel `done` and on the result channel.                  *)
(*                                                                         *)
(* The relay server (internal/askpass) and the UI loop (internal/ui) are   *)
(* not part of cmd/jjui/main.go; they are modelled from the design         *)
(* document and are marked as such where they are defined.                 *)
(***************************************************************************)
EXTENDS Integers, Sequences, FiniteSets, TLC

(* ------------------------------ bounds --------------------------------- *)

\* number of connections the relay server accepts in one run
NReq == 2
\* longest prompt string a stub sends
MaxPromptLen == 2
\* longest secret the user types
MaxSecretLen == 2

(* ------------------------- program constants --------------------------- *)

\* an unbuffered channel: make(chan []byte)
Unbuffered == 1 - 1

\* password := make(chan []byte, 1)
PasswordCap == 1

(* ------------------------------ values --------------------------------- *)

Req == 1 .. NReq

SeqsUpTo(S, n) == UNION {[1 .. k -> S] : k \in 0 .. n}

\* runes of a prompt: two white-space runes and one that is not
SpaceRunes == {" ", "\t"}
Runes == SpaceRunes \cup {"x"}
Prompts == SeqsUpTo(Runes, MaxPromptLen)

\* bytes of a secret: a white-space byte and one that is not
SecretBytes == {" ", "x"}
Secrets == SeqsUpTo(SecretBytes, MaxSecretLen)

\* a Go []byte: the nil slice, or a slice with contents b
NilBytes == [isNil |-> TRUE, b |-> <<>>]
Slice(b) == [isNil |-> FALSE, b |-> b]

\* unicode.IsSpace
IsSpace(r) == r \in SpaceRunes

\* the literal "ssh-askpass: "
Fallback == <<"s", "s", "h", "-", "a", "s", "k", "p", "a", "s", "s", ":", " ">>

adjustPromptKeep(s) == s

\* adjustPrompt: s itself when some rune of s is not white space, else the
\* fallback label
adjustPrompt(s) ==
  IF \E i \in 1 .. Len(s) : ~IsSpace(s[i]) THEN s ELSE Fallback

\* the nil channel, the Password field of the zero TogglePasswordMsg
NilChan == 0

NewChanShared(h) == 1

\* password := make(chan []byte, 1): every call makes a channel of its own;
\* a channel is named by the call that made it
NewChan(h) == h

\* common.TogglePasswordMsg{Prompt: adjustPrompt(prompt), Password: password}
\* (from is not a field of the message: it records the posting call)
ShowMsg(h, p) == [Prompt |-> adjustPrompt(p), Password |-> NewChan(h), from |-> h]

HideMsgStale(h) == [Prompt |-> Fallback, Password |-> NilChan, from |-> h]

\* common.TogglePasswordMsg{}
HideMsg(h) == [Prompt |-> <<>>, Password |-> NilChan, from |-> h]

sendFront(q, m) == <<m>> \o q

\* send(msg): p.Send, the message joins the UI loop's message queue
send(q, m) == Append(q, m)

VARIABLES
  pc,          \* pc[h]: where call h of the handler is
  name,        \* name[h]: the name argument of call h
  prompt,      \* prompt[h]: the prompt argument of call h
  done,        \* done[h]: the cancellation channel of call h is closed
  password,    \* password[c]: the values buffered in result channel c, each
               \* with the call whose prompt it answers
  ret,         \* ret[h]: what call h returned
  msgs,        \* the UI loop's message queue
  overlay,     \* the prompt the UI displays, Hidden when none
  pending,     \* show messages that arrived while a prompt was visible
  uiRunning,   \* the UI loop (p.Run) has not returned
  closed,      \* askpassServer.Close has run
  \* history, read by no action's guard
  how,         \* how[h]: the select case call h took
  posted,      \* posted[h]: the kinds of message call h posted, in order
  first,       \* first[h]: which of response and cancellation came first
  atSelect,    \* atSelect[h]: which of the two had happened when h selected
  accepted,    \* the calls in the order the server invoked them
  showOrder,   \* the calls in the order their show messages were posted
  shownOrder,  \* the calls in the order their prompts became visible
  delivered,   \* delivered[h]: the values the UI delivered for h's show message
  gotFrom,     \* gotFrom[h]: the call whose prompt was answered by what h received
  \* the main goroutine
  run          \* run: where run() is, what it has done and what it returns

vars == <<run, name, pc, prompt, done, password, ret, msgs, overlay, pending, uiRunning,
          closed, how, posted, first, atSelect, accepted, showOrder,
          shownOrder, delivered, gotFrom>>


\* the overlay's Hidden state
Hidden == [Prompt |-> <<>>, Password |-> NilChan, from |-> 0]

\* the calls of the handler and the UI before any connection is accepted
HandlerInit ==
  /\ pc = [h \in Req |-> "idle"]
  /\ name = [h \in Req |-> ""]
  /\ prompt = [h \in Req |-> <<>>]
  /\ done = [h \in Req |-> FALSE]
  /\ password = [c \in Req |-> <<>>]
  /\ ret = [h \in Req |-> NilBytes]
  /\ msgs = <<>>
  /\ overlay = Hidden
  /\ pending = <<>>
  /\ uiRunning = TRUE
  /\ closed = FALSE
  /\ how = [h \in Req |-> "none"]
  /\ posted = [h \in Req |-> <<>>]
  /\ first = [h \in Req |-> "none"]
  /\ atSelect = [h \in Req |-> [response |-> FALSE, cancel |-> FALSE]]
  /\ accepted = <<>>
  /\ showOrder = <<>>
  /\ shownOrder = <<>>
  /\ delivered = [h \in Req |-> <<>>]
  /\ gotFrom = [h \in Req |-> 0]

(* ----------------------------- run(), main() ---------------------------- *)

\* the variables of the handler calls, the relay server and the UI
handlerVars == <<name, pc, prompt, done, password, ret, msgs, overlay, pending,
                 uiRunning, closed, how, posted, first, atSelect, accepted,
                 showOrder, shownOrder, delivered, gotFrom>>

\* how the prompt stub ended (from the design document): the secret was
\* provided, the prompt was dismissed or cancelled, the server was not reached
StubOutcomes == {"secret", "declined", "unreachable"}

\* run() has not begun.  role is what role detection will find, hijack the
\* value of config.Current.Ssh.HijackAskpass when run reads it.
\*   trace   the calls run has made, in order
\*   status  the value run returns, exit the status the process exits with
\*   srv     the relay server: none, unstarted, listening, closed
\*   handoff the state the server was in when NewAppContext received it
\*   serve   the goroutine of Serve: none, launched, running, onClosed
\*   defers  the deferred calls, the last one deferred at the end
\*   stub    how the prompt stub ended, none in the primary role
RunStart(role, hijack) ==
  [pc |-> "NewServer", role |-> role, hijack |-> hijack, trace |-> <<>>,
   status |-> -1, exit |-> -1, srv |-> "none", handoff |-> "none",
   serve |-> "none", defers |-> <<>>, stub |-> "none"]

\* run has reached p.Run(), the relay enabled and listening: the state in
\* which connections are accepted and the handler is called
AtUILoop ==
  [pc |-> "PRun", role |-> "primary", hijack |-> TRUE,
   trace |-> <<"NewUnstartedServer", "IsSubprocess", "flag.Parse", "getJJRootDir",
               "NewAppContext", "LoadConfigFile", "InitVM", "LoadLuaConfigFile",
               "LoadEmbeddedTheme", "NewProgram", "StartListening", "go Serve">>,
   status |-> -1, exit |-> -1, srv |-> "listening", handoff |-> "unstarted",
   serve |-> "launched", defers |-> <<"Flush", "CloseVM", "Close">>,
   stub |-> "none"]

\* run calls what, and goes on at to
Call(r, what, to) == [r EXCEPT !.trace = r.trace \o what, !.pc = to]

\* run calls what, and returns k: the deferred calls are still to run
Return(r, what, k) == [r EXCEPT !.trace = r.trace \o what, !.pc = "Return", !.status = k]

\* askpassServer := askpass.NewUnstartedServer("JJUI")
RunNewServer ==
  /\ run.pc = "NewServer"
  /\ run' = [Call(run, <<"NewUnstartedServer">>, "IsSubprocess") EXCEPT !.srv = "unstarted"]
  /\ UNCHANGED handlerVars

\* IsSubprocess (from the design document): in the stub role the prompt stub
\* client has run, with one of its outcomes, when the call returns true
IsSubprocess(r, o) == IF r.role = "stub" THEN [r EXCEPT !.stub = o] ELSE r

StubGoesOn(r) == Call(r, <<"IsSubprocess">>, "FlagParse")

\* if askpassServer.IsSubprocess() { return 0 }
StubReturns(r) ==
  IF r.role = "stub"
  THEN Return(r, <<"IsSubprocess">>, 0)
  ELSE Call(r, <<"IsSubprocess">>, "FlagParse")

\* askpassServer.IsSubprocess() is called and run returns 0 when it is true
RunIsSubprocess ==
  /\ run.pc = "IsSubprocess"
  /\ \E o \in StubOutcomes : run' = StubReturns(IsSubprocess(run, o))
  /\ UNCHANGED handlerVars

\* flag.Parse(); switch { case help: ...; case version: ...; case editConfig: ... }
RunFlagParse ==
  /\ run.pc = "FlagParse"
  /\ \/ run' = Call(run, <<"flag.Parse">>, "Location")
     \/ run' = Return(run, <<"flag.Parse", "flag.Usage">>, 0)
     \/ run' = Return(run, <<"flag.Parse", "getVersion">>, 0)
     \/ \E k \in {0, 1} : run' = Return(run, <<"flag.Parse", "config.Edit">>, k)
  /\ UNCHANGED handlerVars

\* location = args[0], or os.Getwd(), which may fail: return 1
RunLocation ==
  /\ run.pc = "Location"
  /\ \/ run' = Call(run, <<>>, "JJRoot")
     \/ run' = Call(run, <<"os.Getwd">>, "JJRoot")
     \/ run' = Return(run, <<"os.Getwd">>, 1)
  /\ UNCHANGED handlerVars

\* rootLocation, err := getJJRootDir(location); if err != nil { return 1 }
RunJJRoot ==
  /\ run.pc = "JJRoot"
  /\ \/ run' = Call(run, <<"getJJRootDir">>, "Logging")
     \/ run' = Return(run, <<"getJJRootDir">>, 1)
  /\ UNCHANGED handlerVars

\* DEBUG set: tea.LogToFile; log.Fatalf exits with status 1 at once when it
\* fails, else defer f.Close().  DEBUG not set: log.SetOutput(io.Discard)
RunLogging ==
  /\ run.pc = "Logging"
  /\ \/ run' = Call(run, <<>>, "AppContext")
     \/ run' = [Call(run, <<"tea.LogToFile">>, "AppContext")
                  EXCEPT !.defers = Append(run.defers, "f.Close")]
     \/ run' = [Call(run, <<"tea.LogToFile", "log.Fatalf">>, "Exited") EXCEPT !.exit = 1]
  /\ UNCHANGED handlerVars

\* appContext := context.NewAppContext(rootLocation, askpassServer)
\* defer appContext.Histories.Flush()
RunAppContext ==
  /\ run.pc = "AppContext"
  /\ run' = [Call(run, <<"NewAppContext">>, "LoadConfig")
               EXCEPT !.handoff = run.srv, !.defers = Append(run.defers, "Flush")]
  /\ UNCHANGED handlerVars

\* config.LoadConfigFile(), config.Current.Load: return 1 on an error other
\* than a missing file
RunLoadConfig ==
  /\ run.pc = "LoadConfig"
  /\ \/ run' = Call(run, <<"LoadConfigFile">>, "InitVM")
     \/ run' = Call(run, <<"LoadConfigFile", "config.Load">>, "InitVM")
     \/ run' = Return(run, <<"LoadConfigFile", "config.Load">>, 1)
     \/ run' = Return(run, <<"LoadConfigFile">>, 1)
  /\ UNCHANGED handlerVars

\* scripting.InitVM(appContext); defer scripting.CloseVM(appContext)
RunInitVM ==
  /\ run.pc = "InitVM"
  /\ \/ run' = [Call(run, <<"InitVM">>, "LuaConfig")
                  EXCEPT !.defers = Append(run.defers, "CloseVM")]
     \/ run' = Return(run, <<"InitVM">>, 1)
  /\ UNCHANGED handlerVars

\* config.LoadLuaConfigFile(); scripting.RunSetup when there is a source
RunLuaConfig ==
  /\ run.pc = "LuaConfig"
  /\ \/ run' = Call(run, <<"LoadLuaConfigFile">>, "Theme")
     \/ run' = Return(run, <<"LoadLuaConfigFile">>, 1)
     \/ run' = Call(run, <<"LoadLuaConfigFile", "RunSetup">>, "Theme")
     \/ run' = Return(run, <<"LoadLuaConfigFile", "RunSetup">>, 1)
  /\ UNCHANGED handlerVars

\* config.LoadEmbeddedTheme(defaultThemeName); config.LoadTheme(userThemeName)
RunTheme ==
  /\ run.pc = "Theme"
  /\ \/ run' = Call(run, <<"LoadEmbeddedTheme">>, "Settings")
     \/ run' = Return(run, <<"LoadEmbeddedTheme">>, 1)
     \/ run' = Call(run, <<"LoadEmbeddedTheme", "LoadTheme">>, "Settings")
     \/ run' = Return(run, <<"LoadEmbeddedTheme", "LoadTheme">>, 1)
  /\ UNCHANGED handlerVars

\* common.DefaultPalette.Update(...); period, revset
RunSettings ==
  /\ run.pc = "Settings"
  /\ run' = Call(run, <<"DefaultPalette.Update">>, "NewProgram")
  /\ UNCHANGED handlerVars

\* p := tea.NewProgram(ui.New(appContext), tea.WithInput(os.Stdin))
RunNewProgram ==
  /\ run.pc = "NewProgram"
  /\ run' = Call(run, <<"NewProgram">>, "Hijack")
  /\ UNCHANGED handlerVars

HijackAlways(r) == TRUE

\* if config.Current.Ssh.HijackAskpass
HijackAskpass(r) == r.hijack

BindErrorIgnored(r) == Call(r, <<"StartListening">>, "PRun")

BindErrorDeferClose(r) ==
  [Return(r, <<"StartListening">>, 1) EXCEPT !.defers = Append(r.defers, "Close")]

\* if err := askpassServer.StartListening(); err != nil { ...; return 1 }
BindError(r) == Return(r, <<"StartListening">>, 1)

ListeningNoServe(r) ==
  [Call(r, <<"StartListening">>, "PRun")
     EXCEPT !.srv = "listening", !.defers = Append(r.defers, "Close")]

ListeningNoDefer(r) ==
  [Call(r, <<"StartListening", "go Serve">>, "PRun")
     EXCEPT !.srv = "listening", !.serve = "launched"]

\* StartListening succeeded: defer askpassServer.Close();
\* go askpassServer.Serve(showPassword(p.Send))
Listening(r) ==
  [Call(r, <<"StartListening", "go Serve">>, "PRun")
     EXCEPT !.srv = "listening", !.serve = "launched",
            !.defers = Append(r.defers, "Close")]

\* if config.Current.Ssh.HijackAskpass { StartListening ... }
RunHijack ==
  /\ run.pc = "Hijack"
  /\ IF HijackAskpass(run)
     THEN run' = Listening(run) \/ run' = BindError(run)
     ELSE run' = Call(run, <<>>, "PRun")
  /\ UNCHANGED handlerVars

\* if _, err := p.Run(); err != nil { ...; return 1 }; return 0
RunPRun ==
  /\ run.pc = "PRun"
  /\ \E k \in {0, 1} : run' = Return(run, <<"p.Run">>, k)
  /\ UNCHANGED handlerVars

\* what a deferred call does to the relay server
Deferred(r, call) == IF call = "Close" THEN [r EXCEPT !.srv = "closed"] ELSE r

\* run returns: the deferred calls run, the last one deferred first
RunDeferred ==
  /\ run.pc = "Return"
  /\ run.defers # <<>>
  /\ LET call == run.defers[Len(run.defers)] IN
     run' = [Deferred(run, call) EXCEPT
               !.trace = Append(run.trace, call),
               !.defers = SubSeq(run.defers, 1, Len(run.defers) - 1)]
  /\ UNCHANGED handlerVars

\* what the process exits with when run returns k
ExitStatus(k) == k

\* func main() { os.Exit(run()) }
RunExit ==
  /\ run.pc = "Return"
  /\ run.defers = <<>>
  /\ run' = [run EXCEPT !.pc = "Exited", !.exit = ExitStatus(run.status)]
  /\ UNCHANGED handlerVars

\* the goroutine of go askpassServer.Serve(...) begins to run, unless the
\* process has exited before it was scheduled
ServeStart ==
  /\ run.serve = "launched"
  /\ run.pc # "Exited"
  /\ run' = [run EXCEPT !.serve = IF run.srv = "closed" THEN "onClosed" ELSE "running"]
  /\ UNCHANGED handlerVars

RunNext ==
  \/ RunNewServer
  \/ RunIsSubprocess
  \/ RunFlagParse
  \/ RunLocation
  \/ RunJJRoot
  \/ RunLogging
  \/ RunAppContext
  \/ RunLoadConfig
  \/ RunInitVM
  \/ RunLuaConfig
  \/ RunTheme
  \/ RunSettings
  \/ RunNewProgram
  \/ RunHijack
  \/ RunPRun
  \/ RunDeferred
  \/ RunExit
  \/ ServeStart

RunInit ==
  /\ HandlerInit
  /\ \E role \in {"primary", "stub"}, hijack \in BOOLEAN : run = RunStart(role, hijack)

\* one launch of the program, from the entry of run to the exit of the process
RunSpec == RunInit /\ [][RunNext]_vars

\* the calls of the handler while run is in p.Run
Init == HandlerInit /\ run = AtUILoop

(* --------------- relay server (from the design document) --------------- *)

\* the calls that are running: invoked and not yet returned
Running(h) == pc[h] \in {"post", "select"}

\* an event of request h is recorded as the first one if none came before
FirstIs(f, h, what) == IF f[h] = "none" THEN [f EXCEPT ![h] = what] ELSE f

\* serve: a connection is accepted, its request read, and the handler called
\* with the requester label, the prompt text and a fresh cancellation signal,
\* on its own execution context
Accept(n, p) ==
  LET h == Len(accepted) + 1 IN
  /\ ~closed
  /\ h \in Req
  /\ pc' = [pc EXCEPT ![h] = "post"]
  /\ name' = [name EXCEPT ![h] = n]
  /\ prompt' = [prompt EXCEPT ![h] = p]
  /\ accepted' = Append(accepted, h)
  /\ UNCHANGED <<done, password, ret, msgs, overlay, pending, uiRunning, closed,
                 how, posted, first, atSelect, showOrder, shownOrder, delivered, gotFrom>>
  /\ UNCHANGED run

\* the server closes one request (its connection went away): the
\* cancellation signal of that request fires
Cancel(h) ==
  /\ Running(h)
  /\ ~done[h]
  /\ done' = [done EXCEPT ![h] = TRUE]
  /\ first' = FirstIs(first, h, "cancel")
  /\ UNCHANGED <<pc, prompt, password, ret, msgs, overlay, pending, uiRunning,
                 closed, how, posted, atSelect, accepted, showOrder, shownOrder,
                 delivered, gotFrom>>
  /\ UNCHANGED <<name, run>>

\* close(): no connection is accepted any more and the cancellation signal
\* of every request still pending fires.  run defers Close, so it runs once
\* p.Run has returned.
Close ==
  /\ ~uiRunning
  /\ ~closed
  /\ closed' = TRUE
  /\ done' = [h \in Req |-> done[h] \/ Running(h)]
  /\ first' = [h \in Req |->
                 IF Running(h) /\ ~done[h] /\ first[h] = "none"
                 THEN "cancel" ELSE first[h]]
  /\ UNCHANGED <<pc, prompt, password, ret, msgs, overlay, pending, uiRunning,
                 how, posted, atSelect, accepted, showOrder, shownOrder, delivered, gotFrom>>
  /\ UNCHANGED <<name, run>>

(* ------------------- the prompt handler, showPassword ------------------- *)

DoneReadyAlways(h) == TRUE

DoneReadyNever(h) == FALSE

\* case <-done: is ready once the cancellation channel is closed
DoneReady(h) == done[h]

\* case pw := <-password: is ready when the result channel holds a value
PasswordReady(h) == Len(password[NewChan(h)]) > 0

\* what had happened for call h when its select ran
Snapshot(h) == [response |-> PasswordReady(h), cancel |-> done[h]]

\* password := make(chan []byte, 1); send(TogglePasswordMsg{Prompt, Password})
PostShow(h) ==
  /\ pc[h] = "post"
  /\ msgs' = send(msgs, ShowMsg(h, prompt[h]))
  /\ pc' = [pc EXCEPT ![h] = "select"]
  /\ posted' = [posted EXCEPT ![h] = Append(@, "show")]
  /\ showOrder' = Append(showOrder, h)
  /\ UNCHANGED <<prompt, done, password, ret, overlay, pending, uiRunning, closed,
                 how, first, atSelect, accepted, shownOrder, delivered, gotFrom>>
  /\ UNCHANGED <<name, run>>

SelectDoneNoHide(h) ==
  /\ pc[h] = "select"
  /\ DoneReady(h)
  /\ ret' = [ret EXCEPT ![h] = NilBytes]
  /\ pc' = [pc EXCEPT ![h] = "done"]
  /\ how' = [how EXCEPT ![h] = "cancel"]
  /\ atSelect' = [atSelect EXCEPT ![h] = Snapshot(h)]
  /\ UNCHANGED <<prompt, done, password, msgs, posted, overlay, pending, uiRunning,
                 closed, first, accepted, showOrder, shownOrder, delivered, gotFrom>>
  /\ UNCHANGED <<name, run>>

\* case <-done: send(common.TogglePasswordMsg{}); return nil
SelectDone(h) ==
  /\ pc[h] = "select"
  /\ DoneReady(h)
  /\ msgs' = send(msgs, HideMsg(h))
  /\ ret' = [ret EXCEPT ![h] = NilBytes]
  /\ pc' = [pc EXCEPT ![h] = "done"]
  /\ how' = [how EXCEPT ![h] = "cancel"]
  /\ posted' = [posted EXCEPT ![h] = Append(@, "hide")]
  /\ atSelect' = [atSelect EXCEPT ![h] = Snapshot(h)]
  /\ UNCHANGED <<prompt, done, password, overlay, pending, uiRunning, closed,
                 first, accepted, showOrder, shownOrder, delivered, gotFrom>>
  /\ UNCHANGED <<name, run>>

TrimSpace(v) ==
  IF ~v.isNil /\ Len(v.b) > 0 /\ v.b[Len(v.b)] = " "
  THEN Slice(SubSeq(v.b, 1, Len(v.b) - 1)) ELSE v

\* return pw: the value received is returned as it is
Returned(pw) == pw

\* case pw := <-password: return pw
SelectPassword(h) ==
  /\ pc[h] = "select"
  /\ PasswordReady(h)
  /\ ret' = [ret EXCEPT ![h] = Returned(Head(password[NewChan(h)]).v)]
  /\ gotFrom' = [gotFrom EXCEPT ![h] = Head(password[NewChan(h)]).for]
  /\ password' = [password EXCEPT ![NewChan(h)] = Tail(@)]
  /\ pc' = [pc EXCEPT ![h] = "done"]
  /\ how' = [how EXCEPT ![h] = "complete"]
  /\ atSelect' = [atSelect EXCEPT ![h] = Snapshot(h)]
  /\ UNCHANGED <<prompt, done, msgs, overlay, pending, uiRunning, closed, posted,
                 first, accepted, showOrder, shownOrder, delivered>>
  /\ UNCHANGED <<name, run>>

(* --------------------- UI loop (from the design document) --------------- *)

\* a show message carries a result channel, the hide message none
IsShow(m) == m.Password # NilChan

\* Visible -> Hidden; the next prompt that was queued, if any, is shown
AfterHidden ==
  IF pending = <<>>
  THEN /\ overlay' = Hidden
       /\ pending' = pending
       /\ shownOrder' = shownOrder
  ELSE /\ overlay' = Head(pending)
       /\ pending' = Tail(pending)
       /\ shownOrder' = Append(shownOrder, Head(pending).from)

OnShowOverwrite(m) ==
  /\ overlay' = m
  /\ pending' = pending
  /\ shownOrder' = Append(shownOrder, m.from)

\* a Prompt Event: Hidden -> Visible; while Visible it is queued
OnShow(m) ==
  IF overlay = Hidden
  THEN /\ overlay' = m
       /\ pending' = pending
       /\ shownOrder' = Append(shownOrder, m.from)
  ELSE /\ pending' = Append(pending, m)
       /\ UNCHANGED <<overlay, shownOrder>>

\* a hide message: Visible -> Hidden
OnHide ==
  IF overlay = Hidden
  THEN UNCHANGED <<overlay, pending, shownOrder>>
  ELSE AfterHidden

\* the UI loop takes the next message of its queue
UIUpdate ==
  /\ uiRunning
  /\ msgs # <<>>
  /\ msgs' = Tail(msgs)
  /\ IF IsShow(Head(msgs)) THEN OnShow(Head(msgs)) ELSE OnHide
  /\ UNCHANGED <<pc, prompt, done, password, ret, uiRunning, closed, how, posted,
                 first, atSelect, accepted, showOrder, delivered, gotFrom>>
  /\ UNCHANGED <<name, run>>

\* the answers the user can give: a secret, or the "no answer" marker
Answers == {Slice(s) : s \in Secrets} \cup {NilBytes}

\* the result channel of the displayed prompt can take a value
CanDeliver == Len(password[overlay.Password]) < PasswordCap

\* the user completes entry: the UI delivers the answer on the result channel
\* of the displayed prompt; Visible -> Hidden
UIAnswer(v) ==
  /\ uiRunning
  /\ overlay # Hidden
  /\ CanDeliver
  /\ password' = [password EXCEPT ![overlay.Password] =
                                   Append(@, [v |-> v, for |-> overlay.from])]
  /\ delivered' = [delivered EXCEPT ![overlay.from] = Append(@, v)]
  /\ first' = FirstIs(first, overlay.from, "response")
  /\ AfterHidden
  /\ UNCHANGED <<pc, prompt, done, ret, msgs, uiRunning, closed, how, posted,
                 atSelect, accepted, showOrder, gotFrom>>
  /\ UNCHANGED <<name, run>>

\* p.Run returns: the UI loop takes no message any more
UIQuit ==
  /\ uiRunning
  /\ uiRunning' = FALSE
  /\ UNCHANGED <<pc, prompt, done, password, ret, msgs, overlay, pending, closed,
                 how, posted, first, atSelect, accepted, showOrder, shownOrder,
                 delivered, gotFrom>>
  /\ UNCHANGED <<name, run>>

(* --------------------------- specification ------------------------------ *)

\* the steps of one call of the handler
Handler(h) == PostShow(h) \/ SelectDone(h) \/ SelectPassword(h)

\* the answers of the runs with concurrent requests: the "no answer" marker
\* and a secret
\* the requester labels
Names == {"ssh", "scp"}
TwoAnswers == {NilBytes, Slice(<<"x">>)}

\* NReq concurrent requests, all with the same label and prompt: what the
\* prompt says has no part in how the calls interleave
Next ==
  \/ Accept("ssh", <<"x">>)
  \/ \E h \in Req : Cancel(h)
  \/ Close
  \/ \E h \in Req : PostShow(h)
  \/ \E h \in Req : SelectDone(h)
  \/ \E h \in Req : SelectPassword(h)
  \/ UIUpdate
  \/ \E v \in TwoAnswers : UIAnswer(v)
  \/ UIQuit

Spec == Init /\ [][Next]_vars

\* NReq concurrent requests with one prompt and one answer: what is sent and
\* typed has no part in whether a call returns
LiveNext ==
  \/ Accept("ssh", <<"x">>)
  \/ \E h \in Req : Cancel(h)
  \/ Close
  \/ \E h \in Req : PostShow(h)
  \/ \E h \in Req : SelectDone(h)
  \/ \E h \in Req : SelectPassword(h)
  \/ UIUpdate
  \/ UIAnswer(Slice(<<"x">>))
  \/ UIQuit

\* the goroutine of every call is scheduled
LiveSpec == Init /\ [][LiveNext]_vars /\ \A h \in Req : WF_vars(Handler(h))

\* one request, with every prompt and every answer within the bounds
SingleNext ==
  \/ \E n \in Names, p \in Prompts : (accepted = <<>> /\ Accept(n, p))
  \/ Cancel(1)
  \/ Close
  \/ PostShow(1)
  \/ SelectDone(1)
  \/ SelectPassword(1)
  \/ UIUpdate
  \/ \E v \in Answers : UIAnswer(v)
  \/ UIQuit

SingleSpec == Init /\ [][SingleNext]_vars

(* ------------------------------ properties ------------------------------ *)

\* the show messages that are in the UI's queue, displayed or queued for display
ShowMsgs ==
  {msgs[i] : i \in {j \in 1 .. Len(msgs) : IsShow(msgs[j])}}
    \cup {pending[i] : i \in 1 .. Len(pending)}
    \cup (IF overlay = Hidden THEN {} ELSE {overlay})

\* s has no rune that is not white space (the empty string has none)
OnlySpace(s) == \A i \in 1 .. Len(s) : s[i] \in SpaceRunes

Returns(h) == pc[h] = "done"
Completed(h) == pc[h] = "done" /\ how[h] = "complete"
Cancelled(h) == pc[h] = "done" /\ how[h] = "cancel"

\* C1: the prompt text of every show message is the fallback label
\* "ssh-askpass: " when the prompt given to the handler has no rune that is
\* not white space (the empty prompt included), and the prompt given
\* otherwise; it is never empty and never white space only.
C1_PromptNormalized ==
  \A m \in ShowMsgs :
    /\ m.Prompt = (IF OnlySpace(prompt[m.from]) THEN Fallback ELSE prompt[m.from])
    /\ m.Prompt # <<>>
    /\ ~OnlySpace(m.Prompt)

\* a show message posted for a non-empty prompt of white space only
C1_Witness ==
  \E m \in ShowMsgs :
    /\ prompt[m.from] # <<>>
    /\ OnlySpace(prompt[m.from])
    /\ m.Prompt = Fallback

\* C2 as stated: whichever of response and cancellation occurs first decides
\* what the call returns, in every interleaving.
C2_FirstIsAuthoritative ==
  \A h \in Req :
    Returns(h) =>
      /\ first[h] = "response" => (how[h] = "complete" /\ ret[h] = delivered[h][1])
      /\ first[h] = "cancel" => (how[h] = "cancel" /\ ret[h] = NilBytes)

\* C2 as amended: a call returns one of the two outcomes, the response only
\* if one had been delivered when its select ran and the empty result only
\* if its cancellation had fired by then; when just one of the two had
\* happened, that one decides the result (when both had, either may).
C2_ReadyCaseDecides ==
  \A h \in Req :
    Returns(h) =>
      /\ how[h] \in {"complete", "cancel"}
      /\ how[h] = "complete" => (atSelect[h].response /\ ret[h] = delivered[h][1])
      /\ how[h] = "cancel" => (atSelect[h].cancel /\ ret[h] = NilBytes)
      /\ (atSelect[h].response /\ ~atSelect[h].cancel) => how[h] = "complete"
      /\ (atSelect[h].cancel /\ ~atSelect[h].response) => how[h] = "cancel"

\* a call returned the empty result although the response came first and
\* both events had happened when it selected
C2_Witness ==
  \E h \in Req :
    /\ Returns(h)
    /\ first[h] = "response"
    /\ atSelect[h].response /\ atSelect[h].cancel
    /\ how[h] = "cancel"

\* C3: a call that ends by cancellation has posted its show message and then
\* exactly one hide message, and returns the empty result; a call that ends
\* by completion has posted its show message and nothing else.
C3_HideOnlyOnCancel ==
  \A h \in Req :
    /\ Cancelled(h) => (posted[h] = <<"show", "hide">> /\ ret[h] = NilBytes)
    /\ Completed(h) =>
         /\ posted[h] = <<"show">>
         /\ \E i \in 1 .. Len(delivered[h]) : ret[h] = delivered[h][i]
    /\ Len(SelectSeq(msgs, LAMBDA m : m.from = h /\ ~IsShow(m))) <=
         (IF Cancelled(h) THEN 1 ELSE 0)

\* one call ended by cancellation and another by completion
C3_Witness ==
  \E h, g \in Req :
    /\ Cancelled(h) /\ posted[h] = <<"show", "hide">>
    /\ Completed(g) /\ posted[g] = <<"show">>

\* C4: resolving one request twice is harmless.  The UI is never blocked
\* when it delivers a response: the result channel of the displayed prompt
\* always has room, also when that request was cancelled or has returned.  A
\* call for which both a response and the cancellation occurred returns one
\* result, the response delivered or the empty result.
C4_SecondResolutionHarmless ==
  /\ overlay # Hidden => CanDeliver
  /\ \A h \in Req :
       (Returns(h) /\ done[h] /\ delivered[h] # <<>>) =>
         \/ how[h] = "cancel" /\ ret[h] = NilBytes
         \/ how[h] = "complete" /\ ret[h] = delivered[h][1]

\* the UI delivered a response to a request that was cancelled first and
\* whose call has returned the empty result
C4_Witness ==
  \E h \in Req :
    /\ Cancelled(h)
    /\ first[h] = "cancel"
    /\ delivered[h] # <<>>

\* C5: the UI shows one overlay at a time and the displayed prompt, with its
\* result channel, is replaced or removed only by the user's answer to it or
\* by a hide message; a show message that arrives while a prompt is visible
\* leaves that prompt as it is.
C5_OverlayNotReplaced ==
  [][(overlay # Hidden /\ overlay' # overlay) =>
       \/ Len(password'[overlay.Password]) > Len(password[overlay.Password])
       \/ (msgs # <<>> /\ ~IsShow(Head(msgs)) /\ msgs' = Tail(msgs))]_vars

\* a show message arrived while another prompt was visible
C5_Witness ==
  /\ overlay # Hidden
  /\ pending # <<>>
  /\ pending[1].from # overlay.from

Increasing(s) == \A i, j \in 1 .. Len(s) : i < j => s[i] < s[j]

\* s is an initial part of t
IsPrefix(s, t) == Len(s) <= Len(t) /\ s = SubSeq(t, 1, Len(s))

\* C7 as stated: show messages are posted, and prompts shown, in the order
\* in which the server invoked the handler (calls are numbered in that order).
C7_AcceptOrder == Increasing(showOrder) /\ Increasing(shownOrder)

\* C7 as amended: prompts are shown in the order in which their show
\* messages were posted to the UI, each call posting its show message after
\* it was invoked.
C7_PostOrder ==
  /\ IsPrefix(shownOrder, showOrder)
  /\ \A i \in 1 .. Len(showOrder) :
       \E j \in 1 .. Len(accepted) : accepted[j] = showOrder[i]

\* the request accepted second was shown first
C7_Witness ==
  /\ Len(shownOrder) = 2
  /\ shownOrder[1] > shownOrder[2]

\* C8: what a call returns by completion was delivered by the UI in answer to
\* that call's own show message, and no answer is returned by two calls.
C8_OwnResponse ==
  \A h \in Req :
    Completed(h) =>
      /\ gotFrom[h] = h
      /\ \A g \in Req : (Completed(g) /\ gotFrom[g] = gotFrom[h]) => g = h

\* two calls ended by completion
C8_Witness == \E h, g \in Req : h # g /\ Completed(h) /\ Completed(g)

\* C9: what a call returns by completion is, byte for byte, the value the UI
\* placed on its result channel.
C9_RoundTrip ==
  \A h \in Req :
    Completed(h) => (Len(delivered[h]) = 1 /\ ret[h] = delivered[h][1])

\* a secret of the greatest length that begins and ends with white space was
\* returned
C9_Witness ==
  \E h \in Req :
    /\ Completed(h)
    /\ ~ret[h].isNil
    /\ Len(ret[h].b) = MaxSecretLen
    /\ ret[h].b[1] = " "
    /\ ret[h].b[Len(ret[h].b)] = " "

\* C10: once a call has returned, by completion or by cancellation, no
\* secret bytes are stored in its result channel.
C10_NoSecretRetained ==
  \A h \in Req :
    Returns(h) =>
      \A i \in 1 .. Len(password[NewChan(h)]) :
        Len(password[NewChan(h)][i].v.b) = 0

\* the messages in the UI's queue
Queued == {msgs[i] : i \in 1 .. Len(msgs)}

\* the fields of a message, the history field left out
Fields(m) == DOMAIN m \ {"from"}

\* run has called what
Has(what) == \E i \in 1 .. Len(run.trace) : run.trace[i] = what

\* the number of calls of what
Count(what) == Cardinality({i \in 1 .. Len(run.trace) : run.trace[i] = what})

\* run has called a, and b after it
Then(a, b) == \E i, j \in 1 .. Len(run.trace) :
                i < j /\ run.trace[i] = a /\ run.trace[j] = b

Exited == run.pc = "Exited"

BindFailed == Has("StartListening") /\ run.srv = "unstarted"

\* C13 as stated: after a bind failure the UI event loop is still run.
C13_BindFailureKeepsUI == (Exited /\ BindFailed) => Has("p.Run")

\* C13 as amended: a bind failure ends the run: run returns 1 after the
\* deferred CloseVM and Flush, without launching Serve, without Close and
\* without running the UI event loop.
C13_BindFailureEndsRun ==
  /\ (BindFailed /\ run.pc # "Hijack") =>
       /\ ~Has("p.Run") /\ ~Has("go Serve") /\ ~Has("Close")
       /\ run.status = 1
  /\ (BindFailed /\ Exited) =>
       (run.exit = 1 /\ Then("StartListening", "CloseVM") /\ Then("CloseVM", "Flush"))

\* the process has exited after a bind failure
C13_Witness == Exited /\ BindFailed /\ Has("NewProgram")

\* C14: when StartListening succeeded, Close is called after p.Run has
\* returned, with or without an error, and before run returns; the server is
\* not closed while the UI loop has not returned.
C14_CloseAfterUILoop ==
  /\ (Exited /\ Has("go Serve")) => (Then("p.Run", "Close") /\ run.srv = "closed")
  /\ run.srv = "closed" => Has("p.Run")
  /\ Count("Close") <= 1

\* the UI loop returned an error and the server was closed before the exit
C14_Witness == Exited /\ run.exit = 1 /\ Then("p.Run", "Close")

\* C15 as stated: a show message carries the requester label given to the
\* handler, the prompt text and the result channel; the hide message carries
\* nothing; a call posts one show message first and at most one hide message.
C15_LabelCarried ==
  /\ \A m \in ShowMsgs :
       /\ "Name" \in DOMAIN m
       /\ m.Name = name[m.from]
  /\ \A h \in Req : posted[h] \in {<<>>, <<"show">>, <<"show", "hide">>}

\* C15 as amended: a show message carries the prompt text and the result
\* channel and nothing else (the requester label is not in it); the hide
\* message is the zero message; a call posts one show message first and at
\* most one hide message.
C15_TwoShapes ==
  /\ \A m \in ShowMsgs \cup Queued :
       /\ Fields(m) = {"Prompt", "Password"}
       /\ IF IsShow(m)
          THEN m.Prompt = adjustPrompt(prompt[m.from]) /\ m.Password = NewChan(m.from)
          ELSE m.Prompt = <<>> /\ m.Password = NilChan
  /\ \A h \in Req : posted[h] \in {<<>>, <<"show">>, <<"show", "hide">>}

\* the show and the hide message of a call with a label are in the queue
C15_Witness ==
  \E i, j \in 1 .. Len(msgs) :
    /\ i < j
    /\ IsShow(msgs[i]) /\ ~IsShow(msgs[j])
    /\ msgs[i].from = msgs[j].from
    /\ name[msgs[i].from] = "scp"

\* C16: the server handle is created first and given to the application
\* context while unstarted; StartListening is called at most once; Serve is
\* launched only after StartListening succeeded; Close is called only on a
\* server that was started, after Serve was launched.
C16_ServerLifecycle ==
  /\ Has("NewAppContext") =>
       (run.handoff = "unstarted" /\ Then("NewUnstartedServer", "NewAppContext"))
  /\ Has("StartListening") => Then("NewAppContext", "StartListening")
  /\ Count("StartListening") <= 1
  /\ run.srv = "listening" => Has("StartListening")
  /\ (Has("go Serve") \/ run.serve # "none") =>
       (Then("StartListening", "go Serve") /\ run.srv \in {"listening", "closed"})
  /\ (Has("Close") \/ run.srv = "closed") =>
       (Then("StartListening", "go Serve") /\ Then("go Serve", "Close"))
  /\ \A i \in 1 .. Len(run.defers) :
       run.defers[i] = "Close" => run.srv = "listening"

\* a whole lifecycle: created, handed over, started, served and closed
C16_Witness ==
  /\ Exited
  /\ run.serve = "running"
  /\ Then("NewAppContext", "StartListening")
  /\ Then("go Serve", "Close")

\* C17: a call returns only if its cancellation signal had fired or a
\* response had been delivered on its result channel when its select ran,
\* and it returns bytes only if a response was delivered.
C17_NoTimeout ==
  \A h \in Req :
    /\ Returns(h) =>
         \/ how[h] = "cancel" /\ done[h] /\ atSelect[h].cancel
         \/ how[h] = "complete" /\ delivered[h] # <<>> /\ atSelect[h].response
    /\ Len(ret[h].b) > 0 => (Completed(h) /\ delivered[h] # <<>>)

\* the UI loop has returned and a call still waits, with neither event; another
\* call has returned bytes
C17_Witness ==
  \E h, g \in Req :
    /\ ~uiRunning
    /\ pc[h] = "select" /\ ~done[h] /\ delivered[h] = <<>>
    /\ Completed(g) /\ Len(ret[g].b) > 0

\* h's prompt has been shown
Shown(h) == \E i \in 1 .. Len(shownOrder) : shownOrder[i] = h

\* C18: the prompt of a request that was shown stays displayed until that
\* request is answered or its own hide message was posted: the hide message
\* of another request does not dismiss it.
C18_HideOnlyOwnPrompt ==
  \A h \in Req :
    (Shown(h) /\ overlay.from # h) =>
      \/ delivered[h] # <<>>
      \/ \E i \in 1 .. Len(posted[h]) : posted[h][i] = "hide"

\* C19 as stated: Serve begins to run before Close is invoked.
C19_ServeBeforeClose == run.srv = "closed" => run.serve = "running"

\* C19 as amended: Serve is launched, by the go statement, on a listening
\* server before Close is invoked; its goroutine may begin to run before
\* Close, after Close or not at all before the process exits.
C19_ServeLaunchedBeforeClose ==
  /\ (Has("Close") \/ run.srv = "closed") =>
       (run.serve \in {"launched", "running", "onClosed"} /\ Then("go Serve", "Close"))
  /\ run.serve = "onClosed" => run.srv = "closed"
  /\ run.serve # "none" => Has("go Serve")

\* the goroutine of Serve began to run on a closed server
C19_Witness == run.serve = "onClosed" /\ Has("Close")

\* C20: with ssh.hijack_askpass disabled run never calls StartListening,
\* never launches Serve and never calls or defers Close, and p.Run is called
\* once the UI program is created; before the UI program is created no step
\* touches the relay, whatever the setting.
C20_DisabledRelay ==
  /\ ~run.hijack =>
       /\ ~Has("StartListening") /\ ~Has("go Serve") /\ ~Has("Close")
       /\ run.srv \in {"none", "unstarted"}
       /\ run.serve = "none"
       /\ \A i \in 1 .. Len(run.defers) : run.defers[i] # "Close"
       /\ (Exited /\ Has("NewProgram")) => Has("p.Run")
  /\ ~Has("NewProgram") =>
       /\ ~Has("StartListening") /\ ~Has("go Serve")
       /\ run.srv \in {"none", "unstarted"}
       /\ run.serve = "none"

\* the UI loop has run with the relay disabled
C20_Witness == ~run.hijack /\ run.role = "primary" /\ Exited /\ Has("p.Run")

====
